---- MODULE Spec2Model ----
(***************************************************************************)
(* A model of universal-logger-pro's Logger: the severity table, the gates *)
(* of Logger.log, console dispatch, and the asynchronous file dispatch     *)
(* with its numbered-suffix rotation.                                      *)
(***************************************************************************)
EXTENDS Integers, Sequences, FiniteSets, TLC

VARIABLES
    instance,   \* Logger.instance has been created
    options,    \* this.options
    dirExists,  \* the directory of options.outputFile exists on disk
    writable,   \* the volume accepts mkdir and append (no EACCES, no ENOSPC)
    files,      \* the file system: files[0] is outputFile, files[i] is outputFile.i
    tasks,      \* one entry per logToFile call: its position and what it read
    last,       \* what the latest log call did synchronously
    errStream,  \* diagnostics console.error has received from the logger itself
    handled,    \* invocations of options.errorHandler
    escaped,    \* an exception or a rejected promise reached the caller
    discarded,  \* records whose backup was overwritten by a rotation
    rotation,   \* what the latest rotateLogs call found and did
    now,        \* Date.now(), in milliseconds
    lastTimestamp,      \* this.lastTimestamp
    lastTimestampTime,  \* this.lastTimestampTime
    buffer,     \* this.buffer
    flushTimeout,       \* the interval timer of setupBuffering is running
    flushes,    \* per flushBuffer call: the entries it took from the buffer, and how
                \* many file records log() had produced by then
    destroyed,  \* the steps destroy() has carried out, in their order
    update,     \* how many updateOptions calls were made, and the latest argument
    given,      \* the argument of the latest Logger.getInstance call
    exited      \* process.exit has been called

cache == <<lastTimestamp, lastTimestampTime>>

buffering == <<buffer, flushTimeout, destroyed>>

access == <<given, exited>>

vars == <<instance, options, dirExists, writable, files, tasks, last, errStream, handled,
          escaped, discarded, rotation, now, lastTimestamp, lastTimestampTime, buffer,
          flushTimeout, flushes, destroyed, update, given, exited>>

----------------------------------------------------------------------------
(* Bounds of the model *)

MaxCalls == 3      \* log calls that reach the dispatch stage
Epoch == 1000      \* Date.now() when the program starts
TickMs == 500      \* the step of the clock
MaxTicks == 2      \* steps of the clock
MaxUpdates == 2    \* updateOptions calls
MaxFlushes == 2    \* ticks of the flush timer
MaxRotate == 2     \* largest rotateCount configured
MaxFill == 2       \* largest maxSize configured, in lines of the smallest size
RandScale == 2     \* Math.random() and sampleRate are counted in 1/RandScale

----------------------------------------------------------------------------
(* Severity table: utils/levels.ts *)

defaultLogLevels ==
    [trace |-> 0, debug |-> 1, info |-> 2, warn |-> 3, error |-> 4, fatal |-> 5]

Severities == DOMAIN defaultLogLevels

defaultTypeMapping ==
    [trace |-> "trace", debug |-> "debug", info |-> "info", warn |-> "warn",
     error |-> "error", fatal |-> "fatal",
     verbose |-> "debug", silly |-> "trace", test |-> "debug", mock |-> "debug",
     http |-> "info", request |-> "info", response |-> "info", graphql |-> "info",
     websocket |-> "info", api |-> "info",
     security |-> "warn", audit |-> "info", auth |-> "info", access |-> "info",
     firewall |-> "warn",
     database |-> "info", query |-> "debug", migration |-> "info", cache |-> "debug",
     performance |-> "info", metric |-> "info", benchmark |-> "debug", memory |-> "warn",
     system |-> "info", process |-> "info", cpu |-> "info", disk |-> "info",
     network |-> "info",
     kubernetes |-> "info", docker |-> "info", cloud |-> "info", serverless |-> "info",
     business |-> "info", transaction |-> "info", workflow |-> "info", event |-> "info",
     integration |-> "info", webhook |-> "info", external |-> "info",
     ui |-> "info", interaction |-> "info", analytics |-> "info", tracking |-> "info",
     job |-> "info", queue |-> "info", cron |-> "info", task |-> "info",
     mobile |-> "info", push |-> "info", offline |-> "info", sync |-> "info",
     success |-> "info"]

LogLevels == DOMAIN defaultTypeMapping

\* String.prototype.toUpperCase on the level names.
toUpperCase ==
    [trace |-> "TRACE", debug |-> "DEBUG", info |-> "INFO", warn |-> "WARN",
     error |-> "ERROR", fatal |-> "FATAL", verbose |-> "VERBOSE",
     silly |-> "SILLY", test |-> "TEST", mock |-> "MOCK", http |-> "HTTP",
     request |-> "REQUEST", response |-> "RESPONSE", graphql |-> "GRAPHQL",
     websocket |-> "WEBSOCKET", api |-> "API", security |-> "SECURITY",
     audit |-> "AUDIT", auth |-> "AUTH", access |-> "ACCESS",
     firewall |-> "FIREWALL", database |-> "DATABASE", query |-> "QUERY",
     migration |-> "MIGRATION", cache |-> "CACHE",
     performance |-> "PERFORMANCE", metric |-> "METRIC",
     benchmark |-> "BENCHMARK", memory |-> "MEMORY", system |-> "SYSTEM",
     process |-> "PROCESS", cpu |-> "CPU", disk |-> "DISK",
     network |-> "NETWORK", kubernetes |-> "KUBERNETES", docker |-> "DOCKER",
     cloud |-> "CLOUD", serverless |-> "SERVERLESS", business |-> "BUSINESS",
     transaction |-> "TRANSACTION", workflow |-> "WORKFLOW",
     event |-> "EVENT", integration |-> "INTEGRATION", webhook |-> "WEBHOOK",
     external |-> "EXTERNAL", ui |-> "UI", interaction |-> "INTERACTION",
     analytics |-> "ANALYTICS", tracking |-> "TRACKING", job |-> "JOB",
     queue |-> "QUEUE", cron |-> "CRON", task |-> "TASK", mobile |-> "MOBILE",
     push |-> "PUSH", offline |-> "OFFLINE", sync |-> "SYNC",
     success |-> "SUCCESS"]

----------------------------------------------------------------------------
(* JavaScript values carried as metadata.  A string is its sequence of      *)
(* characters; an object is the sequence of its own enumerable entries in   *)
(* insertion order.                                                         *)

Undefined == [k |-> "undefined"]
Null == [k |-> "null"]
Str(chars) == [k |-> "string", s |-> chars]
Num(n) == [k |-> "number", n |-> n]
Obj(entries) == [k |-> "object", e |-> entries]
Arr(items) == [k |-> "array", e |-> items]

\* The other values the formatter tells apart.  A plain object that overrides
\* toString carries the text its toString() returns; Cycle stands, inside an
\* object or an array, for a reference back to the value that holds it.
Custom(entries, text) == [k |-> "object", e |-> entries, str |-> text]
Err(message, stack) == [k |-> "error", message |-> message, stack |-> stack]
DateValue(iso) == [k |-> "date", s |-> iso]
MapValue(entries) == [k |-> "map", e |-> entries]
SetValue(items) == [k |-> "set", e |-> items]
TypedArray(name, items) == [k |-> "typedarray", name |-> name, e |-> items]
BufferValue(name, byteLength) == [k |-> "buffer", name |-> name, n |-> byteLength]
Fn(name) == [k |-> "function", s |-> name]
Sym(description) == [k |-> "symbol", s |-> description]
BigInt(n) == [k |-> "bigint", n |-> n]
Cycle == [k |-> "cycle"]

\* typeof v === 'object'
IsObject(v) == v.k \in {"object", "array", "null", "error", "date", "map", "set"}

\* A value that is an object and yet has no own enumerable property: its state
\* is in internal slots or in properties that are not enumerable.
IsExotic(v) == v.k \in {"error", "date", "map", "set"}

Keys(o) == {o.e[i][1] : i \in 1 .. Len(o.e)}

Lookup(o, key) ==
    IF o.k = "object" /\ key \in Keys(o) THEN (o.e[CHOOSE i \in 1 .. Len(o.e) : o.e[i][1] = key])[2]
    ELSE Undefined

\* The own entries an object spread copies: none for undefined and null.
Entries(v) == IF v.k = "object" THEN v.e ELSE <<>>

RECURSIVE Assign(_, _)
\* Object.assign semantics of { ...a, ...b }: a's keys keep their place and
\* take b's value, b's new keys follow.
Assign(a, b) ==
    IF b = <<>> THEN a
    ELSE LET key == Head(b)[1]
             a2  == IF \E i \in 1 .. Len(a) : a[i][1] = key
                    THEN [i \in 1 .. Len(a) |-> IF a[i][1] = key THEN Head(b) ELSE a[i]]
                    ELSE Append(a, Head(b))
         IN  Assign(a2, Tail(b))

SpreadObj(a, b) == Obj(Assign(Entries(a), Entries(b)))

----------------------------------------------------------------------------
(* Configuration: Logger.constructor *)

DefaultMaxSize == 10485760
DefaultRotateCount == 5
DefaultIndentation == 2
DefaultBufferSize == 1000
DefaultFlushInterval == 5000

\* JavaScript's a || b on option values: "" and the absent value are falsy.
Absent == "undefined"
Falsy(v) == v = Absent \/ v = ""
OrElse(a, b) == IF Falsy(a) THEN b ELSE a

Get(o, k) == IF k \in DOMAIN o THEN o[k] ELSE Absent

\* { ...a, ...b }
Spread(a, b) ==
    [k \in DOMAIN a \cup DOMAIN b |-> IF k \in DOMAIN b THEN b[k] ELSE a[k]]

ConstructorDefaults(o) ==
    [level |-> "info",
     minLevel |-> OrElse(Get(o, "minLevel"), OrElse(Get(o, "level"), "info")),
     console |-> TRUE,
     outputFile |-> "",
     maxSize |-> DefaultMaxSize,
     rotate |-> TRUE,
     rotateCount |-> DefaultRotateCount,
     silent |-> FALSE,
     prefix |-> <<>>,
     metadata |-> Obj(<<>>),
     showEmoji |-> FALSE,
     showLogType |-> TRUE,
     indentation |-> DefaultIndentation,
     maskSecrets |-> FALSE,
     maskFields |-> {},
     maskChar |-> "*",
     consoleJson |-> FALSE,
     prettyPrint |-> FALSE,
     sampleRate |-> RandScale,
     filter |-> "default",
     contextProvider |-> Obj(<<>>),
     errorHandler |-> "default",
     format |-> "console",
     timeFormat |-> "ISO",
     timeZone |-> "UTC",
     bufferSize |-> DefaultBufferSize,
     flushInterval |-> DefaultFlushInterval,
     asyncLogging |-> FALSE,
     exitOnError |-> FALSE]

Constructor(o) == Spread(ConstructorDefaults(o), o)

----------------------------------------------------------------------------
(* Level gate: Logger.shouldLog *)

\* A level gate that also drops the records at the minimum severity itself.
shouldLog_Strict(level) ==
    defaultLogLevels[defaultTypeMapping[level]]
        > defaultLogLevels[OrElse(options.minLevel, "info")]

\* defaultTypeMapping[level]: undefined for a name the table does not hold.
categorySeverity(level) ==
    IF level \in DOMAIN defaultTypeMapping THEN defaultTypeMapping[level] ELSE Absent

\* defaultLogLevels[severity]: undefined for a name the table does not hold.
\* A comparison with undefined is false.
shouldLog(level) ==
    LET configured      == OrElse(options.minLevel, "info")
        messageSeverity == categorySeverity(level)
    IN  IF configured \in DOMAIN defaultLogLevels
           /\ messageSeverity \in DOMAIN defaultLogLevels
        THEN defaultLogLevels[messageSeverity] >= defaultLogLevels[configured]
        ELSE FALSE

----------------------------------------------------------------------------
(* Logger.maskSensitiveData *)

MaskLength == 8

RECURSIVE repeat(_, _)
repeat(c, n) == IF n = 0 THEN <<>> ELSE <<c>> \o repeat(c, n - 1)

RECURSIVE mask(_)
mask(obj) ==
    IF ~IsObject(obj) \/ obj.k = "null" THEN obj
    ELSE IF IsExotic(obj) THEN Obj(<<>>)
    ELSE IF obj.k = "array"
    THEN Arr([i \in 1 .. Len(obj.e) |->
                 IF IsObject(obj.e[i]) THEN mask(obj.e[i]) ELSE obj.e[i]])
    ELSE Obj([i \in 1 .. Len(obj.e) |->
                 IF obj.e[i][1] \in options.maskFields
                 THEN <<obj.e[i][1], Str(repeat(options.maskChar, MaskLength))>>
                 ELSE IF IsObject(obj.e[i][2])
                 THEN <<obj.e[i][1], mask(obj.e[i][2])>>
                 ELSE obj.e[i]])

maskSensitiveData(data) == IF ~options.maskSecrets THEN data ELSE mask(data)

----------------------------------------------------------------------------
(* Objects by reference.  A heap is a sequence of cells, the address of a    *)
(* cell is its index; a cell is an object or an array whose members are     *)
(* primitive values or references to other cells.                           *)

Ref(a) == [k |-> "ref", at |-> a]

RECURSIVE store(_, _), storeMembers(_, _, _, _)
\* The heap h with the value v in it, and v as the code holds it: a reference
\* for a plain object or an array, the value itself otherwise (a primitive, or
\* an object the logger has no way to assign into).
store(h, v) ==
    IF v.k \notin {"object", "array"} THEN [h |-> h, v |-> v]
    ELSE LET a == Len(h) + 1
         IN  [h |-> storeMembers(Append(h, [k |-> v.k, e |-> <<>>]), a, v, 1),
              v |-> Ref(a)]

storeMembers(h, a, v, i) ==
    IF i > Len(v.e) THEN h
    ELSE LET r    == store(h, IF v.k = "array" THEN v.e[i] ELSE v.e[i][2])
             item == IF v.k = "array" THEN r.v ELSE <<v.e[i][1], r.v>>
         IN  storeMembers([r.h EXCEPT ![a].e = Append(@, item)], a, v, i + 1)

RECURSIVE load(_, _)
\* The value the code reads through v in the heap h.
load(h, v) ==
    IF v.k # "ref" THEN v
    ELSE IF h[v.at].k = "array"
    THEN Arr([i \in 1 .. Len(h[v.at].e) |-> load(h, h[v.at].e[i])])
    ELSE Obj([i \in 1 .. Len(h[v.at].e) |->
                 <<h[v.at].e[i][1], load(h, h[v.at].e[i][2])>>])

\* The own entries { ...v } copies.
entriesAt(h, v) ==
    IF v.k = "ref" THEN (IF h[v.at].k = "object" THEN h[v.at].e ELSE <<>>) ELSE <<>>

\* { ...a, ...b }: a new object.
spread(h, a, b) ==
    [h |-> Append(h, [k |-> "object", e |-> Assign(entriesAt(h, a), entriesAt(h, b))]),
     v |-> Ref(Len(h) + 1)]

\* masked = obj: the same object under another name.
spreadCopy_Alias(h, a) == [h |-> h, at |-> a]

\* const masked = Array.isArray(obj) ? [...obj] : { ...obj }: a new cell with
\* the members of the cell at a.
spreadCopy(h, a) == [h |-> Append(h, h[a]), at |-> Len(h) + 1]

\* masked[key] = value for the i-th entry of the cell at m.
setMember(h, m, i, value) ==
    [h EXCEPT ![m].e[i] = IF h[m].k = "array" THEN value ELSE <<@[1], value>>]

RECURSIVE maskAt(_, _), maskEntries(_, _, _)
\* mask(obj) of maskSensitiveData, on references.
maskAt(h, obj) ==
    IF IsExotic(obj)
    THEN [h |-> Append(h, [k |-> "object", e |-> <<>>]), v |-> Ref(Len(h) + 1)]
    ELSE IF obj.k # "ref" THEN [h |-> h, v |-> obj]
    ELSE LET masked == spreadCopy(h, obj.at)
         IN  [h |-> maskEntries(masked.h, masked.at, 1), v |-> Ref(masked.at)]

\* The loop over Object.entries(masked), from its i-th entry on.
maskEntries(h, m, i) ==
    IF i > Len(h[m].e) THEN h
    ELSE LET key   == IF h[m].k = "array" THEN ToString(i - 1) ELSE h[m].e[i][1]
             value == IF h[m].k = "array" THEN h[m].e[i] ELSE h[m].e[i][2]
         IN  IF key \in options.maskFields
             THEN maskEntries(setMember(h, m, i,
                                        Str(repeat(options.maskChar, MaskLength))),
                              m, i + 1)
             ELSE IF value.k \in {"ref", "null"} \/ IsExotic(value)
             THEN LET r == maskAt(h, value)
                  IN  maskEntries(setMember(r.h, m, i, r.v), m, i + 1)
             ELSE maskEntries(h, m, i + 1)

maskSensitiveDataAt(h, data) ==
    IF ~options.maskSecrets THEN [h |-> h, v |-> data] ELSE maskAt(h, data)

\* The objects of the caller before a call: the metadata argument, the global
\* metadata the logger was configured with and the object the context provider
\* returns.
callerHeap(metadata) ==
    LET m == store(<<>>, metadata)
        g == store(m.h, options.metadata)
        c == store(g.h, options.contextProvider)
    IN  [h |-> c.h, metadata |-> m.v, global |-> g.v, context |-> c.v]

----------------------------------------------------------------------------
(* Rendering.  Text is a sequence of tokens: single characters, and names   *)
(* (keys, level tags, the timestamp) kept as one token each.                *)

Quoted(chars) == <<"\"">> \o chars \o <<"\"">>

NewLine(n) == <<"\n">> \o repeat(" ", n)

Defined(entries) == SelectSeq(entries, LAMBDA e : e[2].k # "undefined")

RECURSIVE JSONstringify(_, _, _)
RECURSIVE JSONmembers(_, _, _, _)

\* The members of an object (isObj) or the items of an array, comma separated,
\* each on its own indented line when indent > 0.
JSONmembers(e, indent, depth, isObj) ==
    IF e = <<>> THEN <<>>
    ELSE (IF indent > 0 THEN NewLine(indent * depth) ELSE <<>>)
         \o (IF isObj
             THEN Quoted(<<Head(e)[1]>>) \o <<":">>
                  \o (IF indent > 0 THEN <<" ">> ELSE <<>>)
                  \o JSONstringify(Head(e)[2], indent, depth)
             ELSE JSONstringify(Head(e), indent, depth))
         \o (IF Tail(e) = <<>> THEN <<>> ELSE <<",">>)
         \o JSONmembers(Tail(e), indent, depth, isObj)

\* JSON.stringify(v, null, indent) for a value at nesting depth `depth`.
JSONstringify(v, indent, depth) ==
    CASE v.k = "string"    -> Quoted(v.s)
      [] v.k = "number"    -> <<ToString(v.n)>>
      [] v.k = "null"      -> <<"null">>
      [] v.k = "undefined" -> <<"null">>
      [] v.k = "date"      -> Quoted(v.s)
      [] v.k \in {"map", "set", "error"} -> <<"{}">>
      [] v.k = "array"     ->
            IF v.e = <<>> THEN <<"[]">>
            ELSE <<"[">> \o JSONmembers(v.e, indent, depth + 1, FALSE)
                 \o (IF indent > 0 THEN NewLine(indent * depth) ELSE <<>>) \o <<"]">>
      [] v.k = "object"    ->
            IF Defined(v.e) = <<>> THEN <<"{}">>
            ELSE <<"{">> \o JSONmembers(Defined(v.e), indent, depth + 1, TRUE)
                 \o (IF indent > 0 THEN NewLine(indent * depth) ELSE <<>>) \o <<"}">>

RECURSIVE Reindent(_, _)
\* text.split('\n').join('\n' + n spaces)
Reindent(text, n) ==
    IF text = <<>> THEN <<>>
    ELSE (IF Head(text) = "\n" THEN NewLine(n) ELSE <<Head(text)>>)
         \o Reindent(Tail(text), n)

BlockIndent == 4
PrettyIndent == 2

ErrorIndent == 6

RECURSIVE JSONthrows(_)
\* JSON.stringify raises a TypeError for a BigInt and for a circular structure.
JSONthrows(v) ==
    CASE v.k \in {"bigint", "cycle"} -> TRUE
      [] v.k = "array"  -> \E i \in 1 .. Len(v.e) : JSONthrows(v.e[i])
      [] v.k = "object" -> \E i \in 1 .. Len(v.e) : JSONthrows(v.e[i][2])
      [] OTHER -> FALSE

RECURSIVE split(_)
\* text.split('\n')
split(text) ==
    IF \A i \in 1 .. Len(text) : text[i] # "\n" THEN <<text>>
    ELSE LET i == CHOOSE n \in 1 .. Len(text) :
                      text[n] = "\n" /\ \A m \in 1 .. (n - 1) : text[m] # "\n"
         IN  <<SubSeq(text, 1, i - 1)>> \o split(SubSeq(text, i + 1, Len(text)))

RECURSIVE trim(_)
\* line.trim()
trim(line) ==
    IF line = <<>> THEN line
    ELSE IF Head(line) = " " THEN trim(Tail(line))
    ELSE IF line[Len(line)] = " " THEN trim(SubSeq(line, 1, Len(line) - 1))
    ELSE line

RECURSIVE join(_, _)
\* parts.join(separator)
join(parts, separator) ==
    IF parts = <<>> THEN <<>>
    ELSE IF Len(parts) = 1 THEN Head(parts)
    ELSE Head(parts) \o separator \o join(Tail(parts), separator)

\* The Error branch of formatValue: the stack, or the message when there is
\* none, every line trimmed and the lines after the first indented.
formatError(value) ==
    LET stack == IF value.stack # <<>> THEN value.stack ELSE value.message
        lines == split(stack)
    IN  join([i \in 1 .. Len(lines) |-> trim(lines[i])], NewLine(ErrorIndent))

formatFunction(fn) ==
    IF fn.s # "" THEN <<"[Function: ", fn.s, "]">> ELSE <<"[Function: anonymous]">>

formatArray(arr) ==
    IF arr.e = <<>> THEN <<"[]">>
    ELSE Reindent(JSONstringify(arr, PrettyIndent, 0), BlockIndent)

\* obj.toString is not Object.prototype.toString and returns another text
\* than '[object Object]'.
CustomString(obj) == "str" \in DOMAIN obj /\ obj.str # <<"[object Object]">>

\* An object that keeps the first test of formatObject and renders by its
\* toString() whatever own keys it has.
formatObject_CustomFirst(obj) ==
    IF CustomString(obj) THEN obj.str
    ELSE IF obj.e = <<>> THEN <<"{}">>
    ELSE Reindent(JSONstringify(obj, PrettyIndent, 0), BlockIndent)

formatObject(obj) ==
    IF obj.e = <<>> THEN <<"{}">>
    ELSE IF CustomString(obj) THEN obj.str
    ELSE Reindent(JSONstringify(obj, PrettyIndent, 0), BlockIndent)

RECURSIVE formatValue(_)
RECURSIVE formatMapOrSet(_, _)

formatMapOrSet(entries, type) ==
    IF entries = <<>> THEN <<type, "(0)">>
    ELSE <<type, "(">> \o NewLine(4)
         \o join([i \in 1 .. Len(entries) |->
                    IF type = "Map"
                    THEN formatValue(entries[i][1]) \o <<" ", "=>", " ">>
                         \o formatValue(entries[i][2])
                    ELSE formatValue(entries[i])],
                 <<",">> \o NewLine(4))
         \o NewLine(2) \o <<")">>

\* formatValue, for the values it renders without an exception.
formatValue(value) ==
    CASE value.k = "null"      -> <<"null">>
      [] value.k = "undefined" -> <<"undefined">>
      [] value.k = "error"     -> formatError(value)
      [] value.k = "date"      -> value.s
      [] value.k = "map"       -> formatMapOrSet(value.e, "Map")
      [] value.k = "set"       -> formatMapOrSet(value.e, "Set")
      [] value.k = "typedarray" ->
            <<value.name, "(">>
            \o join([i \in 1 .. Len(value.e) |-> <<ToString(value.e[i])>>], <<",", " ">>)
            \o <<")">>
      [] value.k = "buffer"    -> <<value.name, "(", ToString(value.n), ")">>
      [] value.k = "array"     -> formatArray(value)
      [] value.k = "object"    -> formatObject(value)
      [] value.k = "function"  -> formatFunction(value)
      [] value.k = "symbol"    -> <<"Symbol(", value.s, ")">>
      [] value.k = "bigint"    -> <<ToString(value.n), "n">>
      [] OTHER                 -> JSONstringify(value, 0, 0)

RECURSIVE formatValueThrows(_)
\* formatValue ends in an exception: the TypeError of the JSON.stringify call
\* in formatArray or formatObject, which no caller up to Logger.log catches.
formatValueThrows(value) ==
    CASE value.k = "array"  -> value.e # <<>> /\ JSONthrows(value)
      [] value.k = "object" -> value.e # <<>> /\ ~CustomString(value) /\ JSONthrows(value)
      [] value.k = "map"    ->
            \E i \in 1 .. Len(value.e) :
                formatValueThrows(value.e[i][1]) \/ formatValueThrows(value.e[i][2])
      [] value.k = "set"    -> \E i \in 1 .. Len(value.e) : formatValueThrows(value.e[i])
      [] OTHER -> FALSE

formatLevelAndType(level, logType, showEmoji, emoji) ==
    LET levelStr == <<"[", toUpperCase[level], "]">>
    IN  IF logType = Absent THEN levelStr
        ELSE (IF showEmoji THEN emoji \o <<" ">> ELSE <<>>)
             \o levelStr \o <<"[", toUpperCase[logType], "]">>

RECURSIVE MetadataLines(_)
\* One "  key: value" line per metadata entry other than source, a value of
\* several lines as an indented block under its key.
MetadataLines(e) ==
    IF e = <<>> THEN <<>>
    ELSE LET formattedValue == formatValue(Head(e)[2])
             oneLine == \A i \in 1 .. Len(formattedValue) : formattedValue[i] # "\n"
         IN  <<" ", " ", Head(e)[1], ":">>
             \o (IF oneLine THEN <<" ">> \o formattedValue
                 ELSE NewLine(BlockIndent) \o Reindent(formattedValue, BlockIndent))
             \o (IF Tail(e) = <<>> THEN <<>> ELSE <<"\n">>)
             \o MetadataLines(Tail(e))

formatLogLine(timestamp, level, logType, message, showEmoji, emoji, source, metadata) ==
    LET sourceStr == IF source.k = "string" /\ source.s # <<>>
                     THEN <<" ", "@", " ">> \o source.s ELSE <<>>
        result == timestamp \o <<" ">>
                  \o formatLevelAndType(level, logType, showEmoji, emoji)
                  \o <<" ">> \o message \o sourceStr
        shown == SelectSeq(Entries(metadata), LAMBDA e : e[1] # "source")
    IN  IF Entries(metadata) # <<>> /\ shown # <<>>
        THEN result \o <<"\n">> \o MetadataLines(shown)
        ELSE result

\* utils/time.ts getTimestamp: the clock reading in the form the format names,
\* ISO 8601 for every format the switch does not know.
getTimestamp(format, timeZone) ==
    CASE format = "UTC"    -> <<"UTC", ToString(now)>>
      [] format = "UNIX"   -> <<"UNIX", ToString(now \div 1000)>>
      [] format = "locale" -> IF Falsy(timeZone) THEN <<"locale", ToString(now)>>
                              ELSE <<"locale", timeZone, ToString(now)>>
      [] OTHER             -> <<"ISO", ToString(now)>>

CacheWindow == 1000

\* A cache that still serves its text when exactly a second has passed.
CacheFresh_Inclusive == now - lastTimestampTime <= CacheWindow

\* Logger.getFormattedTimestamp: the cached text while it is less than a
\* second old, a fresh one in the form options.format names otherwise.
CacheFresh == now - lastTimestampTime < CacheWindow

getFormattedTimestamp ==
    IF CacheFresh THEN lastTimestamp ELSE getTimestamp(options.format, Absent)

----------------------------------------------------------------------------
(* Logger.formatMessage: what log() hands to the console.  The sampling and *)
(* filter branches return the empty string.                                 *)

SampledOut(draw) == draw > options.sampleRate

\* The default filter accepts every entry; a configured one gives its verdict.
FilterVerdict(accept) == IF options.filter = "default" THEN TRUE ELSE accept

FilteredOut(accept) == ~Falsy(options.filter) /\ ~FilterVerdict(accept)

\* The times formatMessage evaluates options.filter: after the sampling return.
filterEvaluations_BeforeSampling(draw) == IF ~Falsy(options.filter) THEN 1 ELSE 0

filterEvaluations(draw) ==
    IF ~SampledOut(draw) /\ ~Falsy(options.filter) THEN 1 ELSE 0

\* The times formatMessage invokes options.contextProvider: after the sampling
\* return and the filter return.
contextInvocations(draw, accept) ==
    IF ~SampledOut(draw) /\ ~FilteredOut(accept)
       /\ options.contextProvider.k # "undefined"
    THEN 1 ELSE 0

\* options.contextProvider is modelled by the object the provider returns.
WithContext(maskedMetadata) ==
    IF options.contextProvider.k # "undefined"
    THEN SpreadObj(maskedMetadata, options.contextProvider)
    ELSE maskedMetadata

LogTypeOf(level) == IF level # defaultTypeMapping[level] THEN level ELSE Absent

ConsoleJsonObject(level, message, maskedMetadata) ==
    SpreadObj(
        SpreadObj(
            Obj(<< <<"timestamp", Str(getFormattedTimestamp)>>,
                   <<"level", Str(<<defaultTypeMapping[level]>>)>>,
                   <<"type", IF LogTypeOf(level) = Absent THEN Undefined
                             ELSE Str(<<level>>)>>,
                   <<"message", Str(message)>> >>),
            maskedMetadata),
        options.metadata)

formatMessage(level, message, metadata, draw, accept) ==
    IF SampledOut(draw) THEN <<>>
    ELSE IF FilteredOut(accept) THEN <<>>
    ELSE LET maskedMetadata == WithContext(maskSensitiveData(metadata))
         IN  IF options.consoleJson
             THEN JSONstringify(ConsoleJsonObject(level, message, maskedMetadata),
                                IF options.prettyPrint THEN options.indentation ELSE 0,
                                0)
             ELSE formatLogLine(
                    getFormattedTimestamp,
                    defaultTypeMapping[level],
                    IF options.showLogType THEN LogTypeOf(level) ELSE Absent,
                    (IF options.prefix # <<>> THEN options.prefix \o <<" ">> ELSE <<>>)
                        \o message,
                    options.showEmoji,
                    <<"symbols", level>>,
                    Lookup(metadata, "source"),
                    metadata)

\* formatMessage ends in an exception of the formatter or of JSON.stringify.
formatMessageThrows(level, message, metadata, draw, accept) ==
    /\ ~SampledOut(draw)
    /\ ~FilteredOut(accept)
    /\ IF options.consoleJson
       THEN JSONthrows(WithContext(maskSensitiveData(metadata)))
       ELSE \E i \in 1 .. Len(Entries(metadata)) :
                /\ Entries(metadata)[i][1] # "source"
                /\ formatValueThrows(Entries(metadata)[i][2])

\* The entry Logger.log builds for the file, and its line in the file.
LogEntry(level, message, metadata) ==
    Obj(<< <<"level", Str(<<level>>)>>,
           <<"message", Str(message)>>,
           <<"timestamp", Str(getTimestamp("ISO", Absent))>>,
           <<"metadata", SpreadObj(options.metadata, metadata)>> >>)

FileLine(entry) == JSONstringify(entry, 0, 0) \o <<"\n">>

\* The switch of Logger.log over the level it was called with.
ConsoleStream(level) ==
    CASE level \in {"error", "fatal"} -> "console.error"
      [] level = "warn"               -> "console.warn"
      [] OTHER                        -> "console.log"

----------------------------------------------------------------------------
(* The file system *)

FileIdx == 0 .. (MaxRotate + 1)

NoFile == [present |-> FALSE, data |-> <<>>]

existsSync(i) == files[i].present

RECURSIVE SumSizes(_, _)
SumSizes(data, t) ==
    IF data = <<>> THEN 0 ELSE t[Head(data)].size + SumSizes(Tail(data), t)

\* fs.stat(outputFile).size
StatSize(f, t) == SumSizes(f[0].data, t)

\* fs.renameSync(from, to): replaces an existing target.
renameSync(f, from, to) == [f EXCEPT ![to] = f[from], ![from] = NoFile]

RECURSIVE ShiftBackups(_, _)
ShiftBackups(f, i) ==
    IF i <= 0 THEN f
    ELSE ShiftBackups(IF f[i].present THEN renameSync(f, i, i + 1) ELSE f, i - 1)

\* Logger.rotateLogs: the loop, then the rename of the live file, which throws
\* ENOENT when the live file is not there.
rotateLogs(f, rotateCount) ==
    LET g == ShiftBackups(f, rotateCount - 1)
    IN  IF g[0].present THEN [ok |-> TRUE, fs |-> renameSync(g, 0, 1)]
        ELSE [ok |-> FALSE, fs |-> g]

RecordsIn(f) == UNION {{f[i].data[k] : k \in 1 .. Len(f[i].data)} : i \in FileIdx}

----------------------------------------------------------------------------
(* Error handling of the file path *)

\* The catch block of logToFile: console.error, nothing rethrown, the
\* configured errorHandler not consulted.
logToFileCatch_Silent == [diag |-> 0, handler |-> 0, rethrow |-> FALSE]

logToFileCatch == [diag |-> 1, handler |-> 0, rethrow |-> FALSE]

\* The catch block of ensureLogDirectory.
ensureLogDirectoryCatch == [diag |-> 1, handler |-> 0, rethrow |-> FALSE]

Failed(t, id, cause) == [t EXCEPT ![id].pc = "failed", ![id].cause = cause]

Caught(c) ==
    /\ errStream' = errStream + c.diag
    /\ handled' = handled + c.handler
    /\ escaped' = (escaped \/ c.rethrow)

NoError == UNCHANGED <<errStream, handled, escaped>>

----------------------------------------------------------------------------
(* Construction *)

\* A value a caller hands to a logging method: a string, an instance of Error,
\* or an object that is no instance of Error and has a message and a stack.
Text(chars) == [kind |-> "string", message |-> chars, stack |-> <<>>]

ErrorInstance(message, stack) == [kind |-> "Error", message |-> message, stack |-> stack]

ErrorLike(message, stack) == [kind |-> "object", message |-> message, stack |-> stack]

NoValue == [kind |-> "none", message |-> <<>>, stack |-> <<>>]

NoCall == [level |-> "none", message |-> <<>>, metadata |-> Undefined, draw |-> 0,
           accept |-> TRUE, passed |-> FALSE, stream |-> "none", text |-> <<>>,
           fileId |-> 0, line |-> <<>>, filterCalls |-> 0, contextCalls |-> 0, randomCalls |-> 0, heap |-> <<>>,
           update |-> 0, value |-> NoValue, at |-> 0, cached |-> 0]

NoRotation == [by |-> 0, liveSize |-> 0, ok |-> TRUE, newest |-> <<>>, count |-> 0]

NoUpdate == [n |-> 0, p |-> <<>>]

Init ==
    /\ instance = FALSE
    /\ options = Constructor(<<>>)
    /\ dirExists \in BOOLEAN
    /\ writable \in BOOLEAN
    /\ files = [i \in FileIdx |-> NoFile]
    /\ tasks = <<>>
    /\ last = NoCall
    /\ errStream = 0
    /\ handled = 0
    /\ escaped = FALSE
    /\ discarded = {}
    /\ rotation = NoRotation
    /\ now = Epoch
    /\ lastTimestamp = <<>>
    /\ lastTimestampTime = 0
    /\ buffer = <<>>
    /\ flushTimeout = FALSE
    /\ flushes = <<>>
    /\ destroyed = <<>>
    /\ update = NoUpdate
    /\ given = <<>>
    /\ exited = FALSE

\* Logger.getInstance(o): the first access runs the constructor, which calls
\* ensureLogDirectory when an output file is configured; a later access returns
\* the existing instance and does not look at o.  The constructor ends with
\* setupBuffering, which starts the flush timer.
getInstance(o) ==
    /\ given' = o
    /\ UNCHANGED <<writable, files, tasks, last, handled, discarded, rotation, now, cache,
                   buffer, flushes, destroyed, update, exited>>
    /\ IF instance
       THEN UNCHANGED <<instance, options, dirExists, errStream, escaped, flushTimeout>>
       ELSE /\ instance' = TRUE
            /\ options' = Constructor(o)
            /\ flushTimeout' = (Constructor(o).bufferSize > 0
                                /\ Constructor(o).flushInterval # 0)
            /\ IF ~Falsy(Constructor(o).outputFile) /\ ~dirExists
               THEN IF writable
                    THEN dirExists' = TRUE /\ UNCHANGED <<errStream, escaped>>
                    ELSE /\ UNCHANGED dirExists
                         /\ errStream' = errStream + ensureLogDirectoryCatch.diag
                         /\ escaped' = (escaped \/ ensureLogDirectoryCatch.rethrow)
               ELSE UNCHANGED <<dirExists, errStream, escaped>>

----------------------------------------------------------------------------
(* Logger.log and the synchronous head of Logger.logToFile *)

\* logToFile up to its first await: it reads outputFile, maxSize and rotate,
\* and either asks for the size of the live file or goes straight to the append.
logToFileStart(entry, stream) ==
    [pc      |-> IF options.rotate /\ existsSync(0) THEN "stat" ELSE "append",
     size    |-> Len(FileLine(entry)),
     maxSize |-> options.maxSize,
     seen    |-> 0,
     rotated |-> FALSE,
     cause   |-> "none",
     console |-> stream,
     after   |-> 0,
     by      |-> "log",
     rotateCount |-> options.rotateCount]   \* at the call; logToFile does not read it

\* A gate of log() that does not look at options.silent.
Gated_NoSilence(level) == ~shouldLog(level)

\* The first line of log(): the silence gate and the level gate.
Gated(level) == options.silent \/ ~shouldLog(level)

\* The heap after formatMessage: the masked copies, the object the context is
\* spread into and the object JSON.stringify is given.
formatMessageAt(c, level, message, draw, accept) ==
    IF SampledOut(draw) \/ FilteredOut(accept) THEN c.h
    ELSE LET masked  == maskSensitiveDataAt(c.h, c.metadata)
             context == IF options.contextProvider.k # "undefined"
                        THEN spread(masked.h, masked.v, c.context)
                        ELSE masked
             own     == store(context.h, ConsoleJsonObject(level, message, Undefined))
         IN  IF options.consoleJson
             THEN spread(spread(own.h, own.v, context.v).h,
                         Ref(Len(own.h) + 1), c.global).h
             ELSE context.h

\* The heap after Logger.log has run to its return: formatMessage, then the
\* entry for the file with its metadata: { ...this.options.metadata, ...metadata }.
logAt(level, message, metadata, draw, accept) ==
    LET c == callerHeap(metadata)
    IN  IF Gated(level) THEN c.h
        ELSE LET h == formatMessageAt(c, level, message, draw, accept)
             IN  IF Falsy(options.outputFile) THEN h
                 ELSE spread(h, c.global, c.metadata).h

\* Logger.log, called with the text `message` for the value a public method
\* was given.
logCall(value, level, message, metadata, draw, accept) ==
    /\ instance
    /\ Len(tasks) < MaxCalls
    /\ UNCHANGED <<instance, options, dirExists, writable, files, errStream, handled,
                   discarded, rotation, now, buffering, flushes, update, given>>
    /\ IF Gated(level)
       THEN /\ last' = [NoCall EXCEPT !.level = level, !.message = message,
                                       !.metadata = metadata, !.draw = draw,
                                       !.accept = accept, !.update = update.n,
                                       !.heap = logAt(level, message, metadata,
                                                      draw, accept),
                                       !.value = value, !.at = now,
                                       !.cached = lastTimestampTime]
            /\ UNCHANGED <<tasks, cache, escaped>>
       ELSE IF formatMessageThrows(level, message, metadata, draw, accept)
       THEN /\ last' = [NoCall EXCEPT !.level = level, !.message = message,
                                       !.metadata = metadata, !.draw = draw,
                                       !.accept = accept, !.update = update.n,
                                       !.heap = logAt(level, message, metadata,
                                                      draw, accept),
                                       !.value = value, !.at = now,
                                       !.cached = lastTimestampTime,
                                       !.passed = TRUE,
                                       !.filterCalls = filterEvaluations(draw),
                                       !.contextCalls =
                                           contextInvocations(draw, accept),
                                       !.randomCalls = 1]
            /\ lastTimestamp' = getFormattedTimestamp
            /\ lastTimestampTime' = IF CacheFresh THEN lastTimestampTime ELSE now
            /\ escaped' = TRUE
            /\ UNCHANGED tasks
       ELSE LET formattedMessage == formatMessage(level, message, metadata, draw, accept)
                stream == IF options.console THEN ConsoleStream(level) ELSE "none"
                toFile == ~Falsy(options.outputFile)
                entry  == LogEntry(level, message, metadata)
            IN  /\ last' = [level   |-> level,
                            message |-> message,
                            metadata |-> metadata,
                            draw    |-> draw,
                            accept  |-> accept,
                            passed  |-> TRUE,
                            stream  |-> stream,
                            text    |-> IF options.console THEN formattedMessage
                                        ELSE <<>>,
                            fileId  |-> IF toFile THEN Len(tasks) + 1 ELSE 0,
                            line    |-> IF toFile THEN FileLine(entry) ELSE <<>>,
                            filterCalls |-> filterEvaluations(draw),
                            contextCalls |-> contextInvocations(draw, accept),
                            randomCalls |-> 1,
                            heap    |-> logAt(level, message, metadata, draw, accept),
                            update  |-> update.n,
                            value   |-> value,
                            at      |-> now,
                            cached  |-> lastTimestampTime]
                /\ lastTimestamp' = getFormattedTimestamp
                /\ lastTimestampTime' = IF CacheFresh THEN lastTimestampTime ELSE now
                /\ tasks' = IF toFile THEN Append(tasks, logToFileStart(entry, stream))
                            ELSE tasks
                /\ UNCHANGED escaped

\* A category method given a string: info(message), debug(message), ...
log(level, message, metadata, draw, accept) ==
    /\ logCall(Text(message), level, message, metadata, draw, accept)
    /\ UNCHANGED exited

\* String(message) for a value that is no instance of Error.
String(value) ==
    IF value.kind = "string" THEN value.message ELSE <<"[object Object]">>

\* An error text without the stack.
errorMessage_NoStack(message) ==
    IF message.kind = "Error" THEN message.message ELSE String(message)

\* message instanceof Error ? `${message.message}\n${message.stack}` : String(message)
errorMessage(message) ==
    IF message.kind = "Error"
    THEN message.message \o <<"\n">> \o message.stack
    ELSE String(message)

\* Logger.error: the text of the value, logged in the category error.
error(message, metadata, draw, accept) ==
    /\ logCall(message, "error", errorMessage(message), metadata, draw, accept)
    /\ UNCHANGED exited

\* A fatal() that ends the process when exitOnError is set.
fatal_Exits(message, metadata, draw, accept) ==
    /\ logCall(message, "fatal", errorMessage(message), metadata, draw, accept)
    /\ exited' = (exited \/ options.exitOnError)

\* Logger.fatal: the text of the value, logged in the category fatal; the
\* method has no other statement, and the process runs on.
fatal(message, metadata, draw, accept) ==
    /\ logCall(message, "fatal", errorMessage(message), metadata, draw, accept)
    /\ UNCHANGED exited

\* Logger.handleError: the configured handler, or a diagnostic on the error
\* stream, followed by process.exit(1) when exitOnError is set.
handleError ==
    IF ~Falsy(options.errorHandler) THEN [handler |-> 1, diag |-> 0, exit |-> FALSE]
    ELSE IF options.exitOnError THEN [handler |-> 0, diag |-> 1, exit |-> TRUE]
    ELSE [handler |-> 0, diag |-> 1, exit |-> FALSE]

----------------------------------------------------------------------------
(* The Logger of src/logger.ts: synchronous file writes and no catch *)

LegacyDefaults ==
    [level |-> "info", format |-> "console", timestamp |-> TRUE, colors |-> TRUE,
     prefix |-> "", metadata |-> Obj(<<>>), outputFile |-> "", console |-> TRUE,
     maxSize |-> DefaultMaxSize, rotate |-> TRUE, rotateCount |-> DefaultRotateCount,
     silent |-> FALSE]

LegacyConstructor(o) == Spread(LegacyDefaults, o)

\* The five-argument formatLogLine this Logger calls.
legacyFormatLogLine(timestamp, level, message, source) ==
    LET sourceStr == IF source.k = "string" /\ source.s # <<>>
                     THEN <<" ", "@", " ">> \o source.s ELSE <<>>
    IN  timestamp \o <<" ", "[", toUpperCase[level], "]", " ">> \o message \o sourceStr

\* new Date().toISOString() with the T replaced and the fraction cut off.
legacyTimestamp == <<"ISO", ToString(now \div 1000), " ">>

legacyFormatMessage(level, message, metadata) ==
    IF options.format = "json"
    THEN JSONstringify(
             SpreadObj(SpreadObj(Obj(<< <<"timestamp", Str(legacyTimestamp)>>,
                                        <<"level", Str(<<level>>)>>,
                                        <<"message", Str(message)>> >>),
                                 metadata),
                       options.metadata), 0, 0)
    ELSE legacyFormatLogLine(legacyTimestamp, level, message, Lookup(metadata, "source"))

\* appendFileSync stands in no try block: its exception is log()'s exception.
appendFileSyncUncaught == [diag |-> 0, handler |-> 0, rethrow |-> TRUE]

\* The constructor creates the directory with no catch either: when it cannot,
\* getInstance throws and no instance is kept.
legacyGetInstance(o) ==
    /\ UNCHANGED <<writable, files, tasks, last, errStream, handled, escaped, discarded,
                   rotation, now, cache, buffering, flushes, update, access>>
    /\ IF instance
       THEN UNCHANGED <<instance, options, dirExists>>
       ELSE LET opts == LegacyConstructor(o)
            IN  IF ~Falsy(opts.outputFile) /\ ~dirExists
                THEN IF writable
                     THEN instance' = TRUE /\ options' = opts /\ dirExists' = TRUE
                     ELSE UNCHANGED <<instance, options, dirExists>>
                ELSE instance' = TRUE /\ options' = opts /\ UNCHANGED dirExists

legacyLog(level, message, metadata) ==
    /\ instance
    /\ Len(tasks) < MaxCalls
    /\ UNCHANGED <<instance, options, dirExists, writable, discarded, rotation, now, cache,
                   buffering, flushes, update, access>>
    /\ IF options.silent
       THEN /\ last' = [NoCall EXCEPT !.level = level, !.message = message,
                                       !.metadata = metadata]
            /\ UNCHANGED <<tasks, files>>
            /\ NoError
       ELSE LET stream == IF options.console THEN ConsoleStream(level) ELSE "none"
                toFile == ~Falsy(options.outputFile)
                entry  == LogEntry(level, message, metadata)
                id     == Len(tasks) + 1
                landed == dirExists /\ writable
                task   == [pc |-> IF landed THEN "done" ELSE "failed",
                           size |-> Len(FileLine(entry)), maxSize |-> options.maxSize,
                           seen |-> 0, rotated |-> FALSE,
                           cause |-> IF landed THEN "none" ELSE "append",
                           console |-> stream, after |-> 0, by |-> "log",
                           rotateCount |-> options.rotateCount]
            IN  /\ last' = [level |-> level, message |-> message,
                            metadata |-> metadata, draw |-> 0, accept |-> TRUE,
                            passed |-> TRUE, stream |-> stream, filterCalls |-> 0,
                            contextCalls |-> 0, randomCalls |-> 0, update |-> 0,
                            heap |-> <<>>,
                            value |-> Text(message),
                            at |-> now, cached |-> lastTimestampTime,
                            text |-> IF options.console
                                     THEN legacyFormatMessage(level, message, metadata)
                                     ELSE <<>>,
                            fileId |-> IF toFile THEN id ELSE 0,
                            line |-> IF toFile THEN FileLine(entry) ELSE <<>>]
                /\ tasks' = IF toFile THEN Append(tasks, task) ELSE tasks
                /\ IF toFile /\ landed
                   THEN files' = [files EXCEPT ![0] =
                                     [present |-> TRUE, data |-> Append(files[0].data, id)]]
                   ELSE UNCHANGED files
                /\ IF toFile /\ ~landed THEN Caught(appendFileSyncUncaught) ELSE NoError

-----------------------------------------------------------------------------
(* The asynchronous steps of Logger.logToFile *)

\* Where a write stands.  The write of a buffered entry that writeBufferedLogs
\* awaits in turn starts when the write before it has settled, and looks for the
\* live file then.
Position(id) ==
    IF tasks[id].pc # "queued" THEN tasks[id].pc
    ELSE IF tasks[tasks[id].after].pc \notin {"done", "failed"} THEN "queued"
    ELSE IF options.rotate /\ existsSync(0) THEN "stat" ELSE "append"

\* fsPromises.stat(outputFile) is carried out: it reads the size the live file
\* has now, or fails with ENOENT when a rotation has moved the file away.
statDone(id) ==
    /\ id \in DOMAIN tasks
    /\ Position(id) = "stat"
    /\ UNCHANGED <<instance, options, dirExists, writable, files, last, discarded,
                   rotation, now, cache, buffering, flushes, update, access>>
    /\ IF existsSync(0)
       THEN /\ tasks' = [tasks EXCEPT ![id].pc = "statted",
                                      ![id].seen = StatSize(files, tasks)]
            /\ NoError
       ELSE /\ tasks' = Failed(tasks, id, "stat")
            /\ Caught(logToFileCatch)

\* The continuation after the stat: the size check, rotateLogs when it is due,
\* and the call of fsPromises.appendFile.
afterStat(id) ==
    /\ id \in DOMAIN tasks
    /\ tasks[id].pc = "statted"
    /\ UNCHANGED <<instance, options, dirExists, writable, last, now, cache, buffering,
                   flushes, update, access>>
    /\ IF tasks[id].seen >= tasks[id].maxSize
       THEN LET r == rotateLogs(files, options.rotateCount)
            IN  /\ files' = r.fs
                /\ discarded' = discarded \cup (RecordsIn(files) \ RecordsIn(r.fs))
                /\ rotation' = [by |-> id, liveSize |-> StatSize(files, tasks),
                                ok |-> r.ok, count |-> options.rotateCount,
                                newest |-> IF r.ok THEN files[0].data
                                           ELSE rotation.newest]
                /\ IF r.ok
                   THEN /\ tasks' = [tasks EXCEPT ![id].pc = "append",
                                                  ![id].rotated = TRUE]
                        /\ NoError
                   ELSE /\ tasks' = Failed([tasks EXCEPT ![id].rotated = TRUE],
                                           id, "rename")
                        /\ Caught(logToFileCatch)
       ELSE /\ tasks' = [tasks EXCEPT ![id].pc = "append"]
            /\ NoError
            /\ UNCHANGED <<files, discarded, rotation>>

\* fsPromises.appendFile(outputFile, JSON.stringify(entry) + '\n') is carried
\* out: the record lands at the end of the live file, which is created when it
\* is not there; the append fails when the directory is missing or the volume
\* refuses the write.
appendDone(id) ==
    /\ id \in DOMAIN tasks
    /\ Position(id) = "append"
    /\ UNCHANGED <<instance, options, dirExists, writable, last, discarded, rotation, now,
                   cache, buffering, flushes, update, access>>
    /\ IF dirExists /\ writable
       THEN /\ files' = [files EXCEPT ![0] = [present |-> TRUE,
                                              data |-> Append(files[0].data, id)]]
            /\ tasks' = [tasks EXCEPT ![id].pc = "done"]
            /\ NoError
       ELSE /\ tasks' = Failed(tasks, id, "append")
            /\ Caught(logToFileCatch)
            /\ UNCHANGED files

----------------------------------------------------------------------------
(* Logger.updateOptions, the buffer and its timer, destroy, and the clock *)

\* A merge in which the live configuration wins over the argument.
updateOptions_Under(p) ==
    /\ instance
    /\ update.n < MaxUpdates
    /\ options' = Spread(p, options)
    /\ update' = [n |-> update.n + 1, p |-> p]
    /\ UNCHANGED access
    /\ UNCHANGED <<instance, dirExists, writable, files, tasks, last, errStream, handled,
                   escaped, discarded, rotation, now, cache, buffering, flushes>>

\* this.options = { ...this.options, ...newOptions }
updateOptions(p) ==
    /\ instance
    /\ update.n < MaxUpdates
    /\ options' = Spread(options, p)
    /\ update' = [n |-> update.n + 1, p |-> p]
    /\ UNCHANGED access
    /\ UNCHANGED <<instance, dirExists, writable, files, tasks, last, errStream, handled,
                   escaped, discarded, rotation, now, cache, buffering, flushes>>

\* Logger.writeBufferedLogs: one writeLogEntry per entry, all started at once
\* with asyncLogging and one after the other without.  writeLogEntry reads the
\* configuration and looks for the live file as logToFile does, and its catch
\* block is the same console.error.
writeBufferedLogs(entries) ==
    [i \in 1 .. Len(entries) |->
        LET atOnce == options.asyncLogging \/ i = 1
        IN  [pc      |-> IF ~atOnce THEN "queued"
                         ELSE IF options.rotate /\ existsSync(0) THEN "stat"
                         ELSE "append",
             size    |-> Len(FileLine(entries[i])),
             maxSize |-> options.maxSize,
             seen    |-> 0,
             rotated |-> FALSE,
             cause   |-> "none",
             console |-> "none",
             after   |-> IF atOnce THEN 0 ELSE Len(tasks) + i - 1,
             by      |-> "flush",
             rotateCount |-> options.rotateCount]]

RECURSIVE Taken(_)
\* The number of entries the first n flushBuffer calls took from the buffer.
Taken(n) == IF n = 0 THEN 0 ELSE Len(flushes[n].taken) + Taken(n - 1)

\* The file records log() has produced so far: those it wrote itself, those
\* waiting in the buffer and those a flush has taken.
Emitted ==
    Cardinality({id \in DOMAIN tasks : tasks[id].by = "log"})
    + Len(buffer) + Taken(Len(flushes))

\* Logger.flushBuffer up to its first await: nothing on an empty buffer;
\* otherwise the buffer is copied and replaced by an empty one, and the copy
\* goes to writeBufferedLogs when an output file is configured.
flushBufferRun ==
    /\ flushes' = Append(flushes, [taken |-> buffer, emitted |-> Emitted])
    /\ IF buffer = <<>>
       THEN UNCHANGED <<buffer, tasks>>
       ELSE /\ buffer' = <<>>
            /\ tasks' = IF ~Falsy(options.outputFile)
                        THEN tasks \o writeBufferedLogs(buffer)
                        ELSE tasks

\* A tick of the interval timer that setupBuffering started.
flushBuffer ==
    /\ instance
    /\ flushTimeout
    /\ destroyed = <<>>
    /\ Len(flushes) < MaxFlushes
    /\ flushBufferRun
    /\ UNCHANGED <<instance, options, dirExists, writable, files, last, errStream, handled,
                   escaped, discarded, rotation, now, cache, flushTimeout, destroyed,
                   update, access>>

\* Logger.destroy: clearInterval on the timer when there is one, then
\* flushBuffer, whose rejection would go to handleError.
destroy ==
    /\ instance
    /\ destroyed = <<>>
    /\ flushTimeout' = FALSE
    /\ destroyed' = (IF flushTimeout THEN <<"clearInterval">> ELSE <<>>)
                    \o <<"flushBuffer">>
    /\ flushBufferRun
    /\ UNCHANGED <<instance, options, dirExists, writable, files, last, errStream, handled,
                   escaped, discarded, rotation, now, cache, update, access>>

\* Time passes.
Tick ==
    /\ now < Epoch + MaxTicks * TickMs
    /\ now' = now + TickMs
    /\ UNCHANGED <<instance, options, dirExists, writable, files, tasks, last, errStream,
                   handled, escaped, discarded, rotation, cache, buffering, flushes,
                   update, access>>

----------------------------------------------------------------------------
(* Specifications *)

TaskIds == 1 .. MaxCalls

\* The size of the smallest line a log call appends.
MinLine == Len(FileLine(LogEntry("info", <<"m">>, Undefined)))

Draws == 0 .. (RandScale - 1)

Rates == 0 .. RandScale

AsyncStep == \E id \in TaskIds : statDone(id) \/ afterStat(id) \/ appendDone(id)

\* The file path: rotation under every interleaving of in-flight writes.
FileOptions ==
    {[outputFile |-> "app.log", maxSize |-> m, rotateCount |-> n, rotate |-> r] :
        m \in {k * MinLine : k \in 1 .. MaxFill}, n \in 1 .. MaxRotate,
        r \in BOOLEAN}

\* Two messages of different length, so that the lines differ in size.
FileMessages == {<<"m">>, <<"m", "m">>}

\* The first access to the singleton with options o, or a later access.
Access(O) == IF instance THEN getInstance(<<>>) ELSE \E o \in O : getInstance(o)

Next ==
    \/ Access(FileOptions)
    \/ \E message \in FileMessages : log("info", message, Undefined, 0, TRUE)
    \/ AsyncStep

Spec == Init /\ [][Next]_vars

\* The gates: every minimum severity, both sinks on and off, every sampling
\* rate; the caller logs when no write is in flight.
GateOptions ==
    {[minLevel |-> m, silent |-> s, console |-> c, outputFile |-> f,
      sampleRate |-> r] :
        m \in Severities, s \in BOOLEAN, c \in BOOLEAN, f \in {"", "app.log"},
        r \in Rates}

GateLevels == Severities \cup {"database", "security", "success", "verbose", "silly",
                               "memory", "query", "http"}

Idle == \A id \in DOMAIN tasks : tasks[id].pc \in {"done", "failed"}

InitGate == Init /\ dirExists /\ writable

NextGate ==
    \/ Access(GateOptions)
    \/ /\ Idle
       /\ \E level \in GateLevels, draw \in Draws :
             log(level, <<"m">>, Undefined, draw, TRUE)
    \/ AsyncStep

SpecGate == InitGate /\ [][NextGate]_vars

\* Masking: metadata that carries secrets at several depths, console in line
\* and in JSON form, with and without an output file.
Secret == Str(<<"s", "e", "c", "r", "e", "t", "1", "2", "3">>)

MaskOptions ==
    {[maskSecrets |-> TRUE, maskFields |-> {"password"}, maskChar |-> "*",
      consoleJson |-> j, outputFile |-> f] :
        j \in BOOLEAN, f \in {"", "app.log"}}

Metas ==
    {Undefined,
     Obj(<< <<"user", Str(<<"b", "o", "b">>)>> >>),
     Obj(<< <<"password", Secret>> >>),
     Obj(<< <<"password", Num(1234)>> >>),
     Obj(<< <<"password", Obj(<< <<"pin", Num(1234)>> >>)>> >>),
     Obj(<< <<"user", Obj(<< <<"name", Str(<<"b", "o", "b">>)>>,
                             <<"password", Secret>> >>)>> >>),
     Obj(<< <<"logins", Arr(<< Obj(<< <<"password", Secret>> >>) >>)>> >>)}

NextMask ==
    \/ Access(MaskOptions)
    \/ /\ Idle
       /\ \E metadata \in Metas : log("info", <<"m">>, metadata, 0, TRUE)
    \/ AsyncStep

SpecMask == InitGate /\ [][NextMask]_vars

\* The filter gate: the default predicate and a configured one, whose verdict
\* on each entry is an input of the call.
FilterOptions ==
    {[filter |-> f, console |-> c, outputFile |-> o, minLevel |-> m] :
        f \in {"default", "custom"}, c \in BOOLEAN, o \in {"", "app.log"},
        m \in {"debug", "warn"}}

NextFilter ==
    \/ Access(FilterOptions)
    \/ /\ Idle
       /\ \E level \in {"info", "warn", "error"}, accept \in BOOLEAN :
             log(level, <<"m">>, Undefined, 0, accept)
    \/ AsyncStep

SpecFilter == InitGate /\ [][NextFilter]_vars

\* Reconfiguration at run time: a logger built silent or not, with and without
\* an output file, reconfigured between calls while the clock advances.
ConfigOptions ==
    {[silent |-> q, outputFile |-> o, filter |-> "custom"] :
        q \in BOOLEAN, o \in {"", "app.log"}}

Updates ==
    {[silent |-> TRUE], [silent |-> FALSE], [minLevel |-> "error"],
     [console |-> FALSE], [consoleJson |-> TRUE, format |-> "json"],
     [format |-> "text"]}

NextConfig ==
    \/ Access(ConfigOptions)
    \/ \E p \in Updates : updateOptions(p)
    \/ /\ Idle
       /\ \E level \in {"info", "error"} : log(level, <<"m">>, Undefined, 0, TRUE)
    \/ AsyncStep
    \/ Tick

SpecConfig == InitGate /\ [][NextConfig]_vars

\* Context injection: a context provider, global metadata and per-call metadata
\* that may each carry the key "k".
From(source) == Obj(<< <<"k", Str(<<source>>)>> >>)

ContextOptions ==
    {[contextProvider |-> c, metadata |-> g, consoleJson |-> j, outputFile |-> o] :
        c \in {Obj(<<>>), From("context")}, g \in {Obj(<<>>), From("global")},
        j \in BOOLEAN, o \in {"", "app.log"}}

NextContext ==
    \/ Access(ContextOptions)
    \/ /\ Idle
       /\ \E level \in {"info", "cache"}, metadata \in {Undefined, From("call")} :
             log(level, <<"m">>, metadata, 0, TRUE)
    \/ AsyncStep

SpecContext == InitGate /\ [][NextContext]_vars

\* Reconfiguration while writes are in flight.
InFlightUpdates == {[rotateCount |-> n] : n \in 1 .. MaxRotate}

NextUpdate ==
    \/ Access(FileOptions)
    \/ \E p \in InFlightUpdates : updateOptions(p)
    \/ log("info", <<"m">>, Undefined, 0, TRUE)
    \/ AsyncStep

SpecUpdate == Init /\ [][NextUpdate]_vars

\* Buffering: the buffer size and the flush interval given or zero, writes in
\* flight while the timer ticks, and shutdown.
BufferOptions ==
    {[outputFile |-> "app.log", bufferSize |-> b, flushInterval |-> f,
      asyncLogging |-> a] :
        b \in {0, DefaultBufferSize}, f \in {0, DefaultFlushInterval}, a \in BOOLEAN}

NextBuffer ==
    \/ Access(BufferOptions)
    \/ log("info", <<"m">>, Undefined, 0, TRUE)
    \/ flushBuffer
    \/ destroy
    \/ AsyncStep

SpecBuffer == Init /\ [][NextBuffer]_vars

\* The Logger of src/logger.ts on every kind of volume.
LegacyOptions ==
    {[silent |-> q, console |-> c, outputFile |-> f, format |-> t] :
        q \in BOOLEAN, c \in BOOLEAN, f \in {"", "app.log"}, t \in {"console", "json"}}

LegacyLevels == {"debug", "info", "warn", "error"}

LegacyAccess ==
    IF instance THEN legacyGetInstance(<<>>) ELSE \E o \in LegacyOptions : legacyGetInstance(o)

NextLegacy ==
    \/ LegacyAccess
    \/ \E level \in LegacyLevels, message \in FileMessages :
          legacyLog(level, message, Undefined)

SpecLegacy == Init /\ [][NextLegacy]_vars

\* error() and fatal() with a string, an Error and an error-like object, with
\* exitOnError on and off.
ErrorValues ==
    {Text(<<"m">>), ErrorInstance(<<"boom">>, <<"Error: boom", "\n", "    at f">>),
     ErrorLike(<<"boom">>, <<"Error: boom", "\n", "    at f">>)}

FatalOptions ==
    {[exitOnError |-> e, outputFile |-> f, minLevel |-> m] :
        e \in BOOLEAN, f \in {"", "app.log"}, m \in {"error", "fatal"}}

NextFatal ==
    \/ Access(FatalOptions)
    \/ \E v \in ErrorValues : error(v, Undefined, 0, TRUE)
    \/ \E v \in ErrorValues : fatal(v, Undefined, 0, TRUE)
    \/ AsyncStep

SpecFatal == InitGate /\ [][NextFatal]_vars

\* The singleton: every access may carry options, as the two accesses of the
\* README's Quick Start do.
SingletonOptions ==
    {<<>>} \cup {[outputFile |-> f, minLevel |-> m, silent |-> q] :
                    f \in {"", "app.log"}, m \in {"debug", "info", "error"},
                    q \in BOOLEAN}

NextSingleton ==
    \/ \E o \in SingletonOptions : getInstance(o)
    \/ /\ Idle
       /\ \E level \in {"debug", "info", "error"} : log(level, <<"m">>, Undefined, 0, TRUE)
    \/ AsyncStep

SpecSingleton == InitGate /\ [][NextSingleton]_vars

\* The severity table: every category of the table and one it does not hold,
\* under every level the README lists as a minimum.
SeverityOptions ==
    {[minLevel |-> m] : m \in Severities \cup {"success"}}

NextSeverity ==
    \/ Access(SeverityOptions)
    \/ \E level \in LogLevels \cup {"custom"} : log(level, <<"m">>, Undefined, 0, TRUE)

SpecSeverity == InitGate /\ [][NextSeverity]_vars

\* The output format: options.format and options.consoleJson, with global and
\* per-call metadata, for a level that is a severity and one that is not.
FormatOptions ==
    {[format |-> f, consoleJson |-> j, metadata |-> g] :
        f \in {"console", "json", "text"}, j \in BOOLEAN,
        g \in {Obj(<<>>), Obj(<< <<"app", Str(<<"api">>)>> >>)}}

FormatMetas == {Undefined, Obj(<< <<"userId", Num(7)>> >>)}

NextFormat ==
    \/ Access(FormatOptions)
    \/ \E level \in {"info", "database"}, metadata \in FormatMetas :
          log(level, <<"m">>, metadata, 0, TRUE)
    \/ Tick

SpecFormat == InitGate /\ [][NextFormat]_vars

\* The value formatter: one metadata value of every kind it tells apart,
\* rendered on the console line of a call.
RenderValues ==
    << Str(<<"s">>), Num(1), Null, Undefined,
       Obj(<<>>), Obj(<< <<"a", Num(1)>> >>),
       Obj(<< <<"self", Cycle>> >>), Obj(<< <<"n", BigInt(1)>> >>),
       Arr(<<>>), Arr(<<Num(1)>>), Arr(<<BigInt(1)>>), Arr(<<Cycle>>),
       Custom(<<>>, <<"id-1">>), Custom(<< <<"id", Num(1)>> >>, <<"id-1">>),
       Custom(<< <<"a", Num(1)>> >>, <<"[object Object]">>),
       Custom(<< <<"self", Cycle>> >>, <<"id-1">>),
       Err(<<"boom">>, <<"Error: boom", "\n", " ", " ", " ", " ", "at f">>),
       Err(<<"boom">>, <<>>),
       DateValue(<<"2024-01-01T00:00:00.000Z">>),
       MapValue(<<>>), MapValue(<< <<Str(<<"k">>), Num(1)>> >>),
       MapValue(<< <<Str(<<"k">>), Arr(<<BigInt(1)>>)>> >>),
       SetValue(<<>>), SetValue(<<Num(1)>>), SetValue(<<Obj(<< <<"self", Cycle>> >>)>>),
       TypedArray("Uint8Array", <<1, 2>>), TypedArray("Buffer", <<1, 2>>),
       TypedArray("Float64Array", <<>>),
       BufferValue("ArrayBuffer", 8), BufferValue("DataView", 8),
       Fn("f"), Fn(""), Sym("tag"), BigInt(5) >>

RenderOptions == {[minLevel |-> m] : m \in {"debug", "info"}}

NextRender ==
    \/ Access(RenderOptions)
    \/ \E i \in DOMAIN RenderValues, level \in {"debug", "info", "database"} :
          log(level, <<"m">>, Obj(<< <<"v", RenderValues[i]>> >>), 0, TRUE)

SpecRender == InitGate /\ [][NextRender]_vars

\* The level option: given at construction and through updateOptions, with no
\* minLevel anywhere.
LevelOptions == {[level |-> l] : l \in Severities}

NextLevel ==
    \/ Access(LevelOptions)
    \/ \E p \in LevelOptions : updateOptions(p)
    \/ \E level \in Severities \cup {"success", "security"} :
          log(level, <<"m">>, Undefined, 0, TRUE)

SpecLevel == InitGate /\ [][NextLevel]_vars

\* The timestamp format: every documented timeFormat, one that is not, and two
\* time zones, while the clock advances.
TimeOptions ==
    {[timeFormat |-> f, timeZone |-> z] :
        f \in {"ISO", "UTC", "UNIX", "locale", "epoch"},
        z \in {"UTC", "America/New_York"}}

NextTime ==
    \/ Access(TimeOptions)
    \/ \E level \in {"info", "error", "database"} : log(level, <<"m">>, Undefined, 0, TRUE)
    \/ Tick

SpecTime == InitGate /\ [][NextTime]_vars

\* The order of the gates: silence, two minimum severities, every sampling
\* rate, a configured filter and a context provider, all at once.
StageOptions ==
    {[silent |-> s, minLevel |-> m, sampleRate |-> r, filter |-> f,
      contextProvider |-> From("context")] :
        s \in BOOLEAN, m \in {"debug", "warn"}, r \in Rates,
        f \in {"default", "custom"}}

NextStages ==
    \/ Access(StageOptions)
    \/ \E level \in {"info", "warn", "database"}, draw \in Draws, accept \in BOOLEAN :
          log(level, <<"m">>, From("call"), draw, accept)

SpecStages == InitGate /\ [][NextStages]_vars

\* The record's own fields: JSON console output, with per-call, context and
\* global metadata that may each carry one of the keys of the record itself.
OwnKeys == {"timestamp", "level", "type", "message"}

Carrying(key, source) == Obj(<< <<key, Str(<<source>>)>> >>)

OwnFieldOptions ==
    {[consoleJson |-> TRUE, contextProvider |-> c, metadata |-> g] :
        c \in {Obj(<<>>)} \cup {Carrying(key, "context") : key \in OwnKeys},
        g \in {Obj(<<>>)} \cup {Carrying(key, "global") : key \in OwnKeys}}

NextOwnFields ==
    \/ Access(OwnFieldOptions)
    \/ \E level \in {"info", "database"},
          metadata \in {Undefined, Carrying("k", "call")}
                          \cup {Carrying(key, "call") : key \in OwnKeys} :
          log(level, <<"m">>, metadata, 0, TRUE)

SpecOwnFields == InitGate /\ [][NextOwnFields]_vars

\* The caller's objects: masking on and off, line and JSON console output, a
\* file, global metadata and a context that may carry a secret.
FrameOptions ==
    {[maskSecrets |-> s, maskFields |-> {"password"}, maskChar |-> "*",
      consoleJson |-> j, outputFile |-> "app.log", metadata |-> g,
      contextProvider |-> c] :
        s \in BOOLEAN, j \in BOOLEAN,
        g \in {Obj(<<>>), Obj(<< <<"password", Secret>> >>)},
        c \in {Obj(<<>>), Obj(<< <<"user", Obj(<< <<"password", Secret>> >>)>> >>)}}

FrameMetas ==
    {Undefined,
     Obj(<< <<"password", Obj(<< <<"pin", Num(1234)>> >>)>> >>),
     Obj(<< <<"user", Obj(<< <<"name", Str(<<"b", "o", "b">>)>>,
                             <<"password", Secret>> >>)>> >>),
     Obj(<< <<"logins", Arr(<< Obj(<< <<"password", Secret>> >>) >>)>> >>)}

NextFrame ==
    \/ Access(FrameOptions)
    \/ /\ Idle
       /\ \E metadata \in FrameMetas : log("info", <<"m">>, metadata, 0, TRUE)
    \/ AsyncStep

SpecFrame == InitGate /\ [][NextFrame]_vars

\* The kinds of value under a key that is not masked: alone, next to a masked
\* key, and one level down.
KindValues ==
    << Str(<<"s">>), Num(1), Obj(<< <<"a", Num(1)>> >>), Arr(<<Num(1)>>),
       DateValue(<<"2024-01-01T00:00:00.000Z">>),
       MapValue(<< <<Str(<<"k">>), Num(1)>> >>), SetValue(<<Num(1)>>),
       Err(<<"boom">>, <<>>) >>

KindOptions ==
    {[maskSecrets |-> s, maskFields |-> {"password"}, maskChar |-> "*",
      consoleJson |-> j] : s \in BOOLEAN, j \in BOOLEAN}

KindMetas(v) ==
    << Obj(<< <<"v", v>> >>),
       Obj(<< <<"password", Secret>>, <<"v", v>> >>),
       Obj(<< <<"o", Obj(<< <<"v", v>> >>)>> >>) >>

NextKinds ==
    \/ Access(KindOptions)
    \/ \E i \in DOMAIN KindValues, j \in 1 .. 3 :
          log("info", <<"m">>, KindMetas(KindValues[i])[j], 0, TRUE)

SpecKinds == InitGate /\ [][NextKinds]_vars

----------------------------------------------------------------------------
(* Properties of the file path *)

Settled(id) == tasks[id].pc \in {"done", "failed"}

Occurrences(id) ==
    Cardinality({<<i, k>> \in FileIdx \X (1 .. MaxCalls) :
                    k <= Len(files[i].data) /\ files[i].data[k] = id})

RECURSIVE OldestFirst(_)
OldestFirst(i) == IF i < 0 THEN <<>> ELSE files[i].data \o OldestFirst(i - 1)

\* Backups from the oldest to the newest, then the live file.
Stream == OldestFirst(MaxRotate + 1)

RecordSizeMax ==
    IF tasks = <<>> THEN 0
    ELSE CHOOSE m \in {tasks[id].size : id \in DOMAIN tasks} :
            \A id \in DOMAIN tasks : tasks[id].size <= m

IoErrors ==
    Cardinality({id \in DOMAIN tasks : tasks[id].pc = "failed"})
    + (IF instance /\ ~Falsy(options.outputFile) /\ ~dirExists THEN 1 ELSE 0)

\* C2: with rotateCount = N no backup beyond outputFile.N exists, and
\* outputFile.1 holds the content most recently rotated out of the live file.
C2_NewestBackupIsFirst ==
    instance =>
        /\ \A k \in FileIdx : k > options.rotateCount => ~files[k].present
        /\ rotation.newest # <<>> =>
              files[1].present /\ files[1].data = rotation.newest

\* C3: every record whose write has run to its end, on a volume that accepts
\* writes, is exactly once in the live file or a backup, unless its backup was
\* discarded by a rotation.
C3_NoRecordLost ==
    \A id \in DOMAIN tasks :
        Settled(id) /\ dirExists /\ writable =>
            (Occurrences(id) = 1 /\ id \notin discarded)
            \/ (Occurrences(id) = 0 /\ id \in discarded)

\* C4: the records on disk, backups oldest first and then the live file, are in
\* the order their log calls were issued.
C4_IssueOrder ==
    \A j, k \in 1 .. Len(Stream) : j < k => Stream[j] < Stream[k]

\* C5: every rotation cycle is run on a live file whose size has reached
\* maxSize, and runs to its end.
C5_RotationOnlyAtMaxSize ==
    rotation.by # 0 => rotation.ok /\ rotation.liveSize >= options.maxSize

\* C6: with rotation enabled the live file stays below maxSize plus the size of
\* the largest record.
C6_LiveFileBound ==
    instance /\ options.rotate =>
        StatSize(files, tasks) < options.maxSize + RecordSizeMax

\* C7: no failure of a file write reaches the caller of a log method, and the
\* console write of a record whose file write failed is in place.
C7_FileErrorsContained ==
    /\ ~escaped
    /\ \A id \in DOMAIN tasks :
          tasks[id].pc = "failed" /\ options.console => tasks[id].console # "none"

\* C8: every I/O error is reported through options.errorHandler.
C8_ErrorsReachHandler == handled = IoErrors

----------------------------------------------------------------------------
(* Properties of the gates *)

Rank(level) == defaultLogLevels[defaultTypeMapping[level]]

Called == instance /\ last.level # "none"

Dropped == SampledOut(last.draw) \/ FilteredOut(last.accept)

\* C1: on a logger that is not silent, a call below the minimum severity
\* reaches no sink, whatever its category; a call at or above it that is not
\* dropped by sampling or the filter is written to the console when it is enabled
\* and handed to the file when an output file is configured.
C1_LevelGate ==
    Called /\ ~options.silent =>
        /\ Rank(last.level) < defaultLogLevels[options.minLevel] =>
              last.stream = "none" /\ last.text = <<>> /\ last.fileId = 0
        /\ Rank(last.level) >= defaultLogLevels[options.minLevel] /\ ~Dropped =>
              /\ options.console <=> (last.stream # "none" /\ last.text # <<>>)
              /\ options.outputFile # "" <=> last.fileId # 0

C1_Witness ==
    /\ Called /\ ~options.silent /\ options.console /\ options.outputFile # ""
    /\ options.minLevel = "warn" /\ last.level = "database"
    /\ last.stream = "none" /\ last.fileId = 0

\* C10: with sampleRate 0 no call writes to the console or to the file, and
\* with sampleRate 1 every call that passes the level gate is emitted.
C10_SampleRateExtremes ==
    Called =>
        /\ options.sampleRate = 0 => last.stream = "none" /\ last.fileId = 0
        /\ options.sampleRate = RandScale /\ last.passed =>
              /\ options.console => last.text # <<>>
              /\ options.outputFile # "" => last.fileId # 0

\* The console stream of a severity.
StreamOf(severity) ==
    CASE severity \in {"error", "fatal"} -> "console.error"
      [] severity = "warn"               -> "console.warn"
      [] OTHER                           -> "console.log"

\* C14: with the console enabled, a record that passes the gates goes to the
\* one console stream of the severity its category maps to.
C14_StreamBySeverity ==
    Called /\ last.passed /\ options.console =>
        last.stream = StreamOf(defaultTypeMapping[last.level])

\* C11: a call whose record the configured filter rejects writes to no console
\* stream and dispatches nothing to the file.
C11_FilteredOutIsSilent ==
    Called /\ options.filter = "custom" /\ ~last.accept =>
        last.stream = "none" /\ last.fileId = 0

\* C12: while options.silent holds, a step other than a reconfiguration
\* dispatches no file write, leaves the timestamp cache and the buffer as they
\* are, and a log call in it writes to no console stream and invokes neither
\* the filter nor the context provider.
C12_SilentNoEffect ==
    [][instance /\ options.silent /\ options' = options =>
          /\ Len(tasks') = Len(tasks)
          /\ UNCHANGED <<lastTimestamp, lastTimestampTime, buffer>>
          /\ last' # last =>
                /\ last'.stream = "none" /\ last'.fileId = 0
                /\ last'.filterCalls = 0 /\ last'.contextCalls = 0]_vars

C12_Witness ==
    /\ Called /\ options.silent /\ options.console /\ options.outputFile # ""
    /\ update.n > 0 /\ update.p = [silent |-> TRUE] /\ last.update = update.n
    /\ Rank(last.level) >= defaultLogLevels[options.minLevel]
    /\ last.stream = "none" /\ last.fileId = 0
    /\ lastTimestamp # <<>> /\ ~CacheFresh

----------------------------------------------------------------------------
(* Properties of reconfiguration *)

\* The call in last was issued after the latest updateOptions call.
AfterUpdate == Called /\ update.n > 0 /\ last.update = update.n

Updated(k) == k \in DOMAIN update.p

\* C15: updateOptions(p) gives exactly the fields of p the values of p and
\* leaves every other field as it was, and a log call issued after it is gated,
\* routed and rendered by the new values.
C15_UpdateMergesAndIsObserved ==
    /\ [][update' # update =>
             /\ DOMAIN options' = DOMAIN options \cup DOMAIN update'.p
             /\ \A k \in DOMAIN options' :
                   options'[k] = IF k \in DOMAIN update'.p THEN update'.p[k]
                                 ELSE options[k]]_vars
    /\ [](AfterUpdate =>
             /\ Updated("silent") =>
                   (update.p.silent => last.stream = "none" /\ last.fileId = 0)
                   /\ (~update.p.silent =>
                          (last.passed <=> Rank(last.level)
                                             >= defaultLogLevels[options.minLevel]))
             /\ Updated("minLevel") =>
                   (last.passed <=> ~options.silent
                                    /\ Rank(last.level)
                                          >= defaultLogLevels[update.p.minLevel])
             /\ Updated("console") /\ last.passed =>
                   (last.stream # "none" <=> update.p.console)
             /\ Updated("consoleJson") /\ last.passed /\ options.console =>
                   (Head(last.text) = "{" <=> update.p.consoleJson)
             /\ Updated("format") /\ last.passed /\ options.console
                   /\ ~options.consoleJson =>
                   Head(last.text) = Head(getTimestamp(update.p.format, Absent)))

C15_Witness ==
    /\ AfterUpdate /\ update.n = 2 /\ update.p = [minLevel |-> "error"]
    /\ last.level = "info" /\ ~last.passed /\ ~options.silent
    /\ \E id \in DOMAIN tasks : tasks[id].pc = "done"

----------------------------------------------------------------------------
(* Properties of context injection *)

\* The metadata of a record when the context lies under the per-call metadata
\* and the global metadata over both.
Merged(metadata) ==
    SpreadObj(SpreadObj(options.contextProvider, metadata), options.metadata)

\* The sources that carry the key "k" for the call in last.
Carriers ==
    {c \in {options.contextProvider, last.metadata, options.metadata} :
        Lookup(c, "k") # Undefined}

\* The console text and the file line of a record that carries metadata md.
RenderedWith(level, message, md) ==
    IF options.consoleJson
    THEN JSONstringify(ConsoleJsonObject(level, message, md),
                       IF options.prettyPrint THEN options.indentation ELSE 0, 0)
    ELSE formatLogLine(getFormattedTimestamp, defaultTypeMapping[level],
                       IF options.showLogType THEN LogTypeOf(level) ELSE Absent,
                       message, options.showEmoji, <<"symbols", level>>,
                       Lookup(md, "source"), md)

LineWith(level, message, md) ==
    FileLine(Obj(<< <<"level", Str(<<level>>)>>,
                    <<"message", Str(message)>>,
                    <<"timestamp", Str(getTimestamp("ISO", Absent))>>,
                    <<"metadata", md>> >>))

\* C13: when two of context, per-call metadata and global metadata carry the
\* same key, the console text and the file line of the record show the global
\* value if there is one, and the per-call value otherwise.
C13_MetadataPrecedence ==
    Called /\ last.passed /\ Cardinality(Carriers) >= 2 =>
        /\ options.console =>
              last.text = RenderedWith(last.level, last.message, Merged(last.metadata))
        /\ last.fileId # 0 =>
              last.line = LineWith(last.level, last.message, Merged(last.metadata))

\* C16: the rotation a call runs uses the rotateCount that was configured when
\* the call was issued.
C16_CallTimeSnapshot ==
    rotation.by # 0 => rotation.count = tasks[rotation.by].rotateCount

----------------------------------------------------------------------------
(* Properties of buffering *)

BufferingOn == instance /\ options.bufferSize > 0 /\ options.flushInterval # 0

\* The place of a record among the file records log() produced.
IssueIndex(id) ==
    Cardinality({i \in DOMAIN tasks : tasks[i].by = "log" /\ i <= id})

\* The batch of a record: the number of flushes that began before it was
\* produced.
Batch(id) ==
    Cardinality({k \in DOMAIN flushes : flushes[k].emitted < IssueIndex(id)})

Place(id) == CHOOSE k \in DOMAIN Stream : Stream[k] = id

\* C17: with buffering enabled no file write is started by a log call: every
\* write was started by a flush, for an entry it took from the buffer.
C17_WritesOnlyByFlush ==
    BufferingOn => \A id \in DOMAIN tasks : tasks[id].by = "flush"

C19_BatchesInIssueOrder ==
    BufferingOn =>
        \A i, j \in DOMAIN tasks :
            Batch(i) < Batch(j) /\ Occurrences(j) > 0 =>
                Occurrences(i) > 0 /\ Place(i) < Place(j)

\* C20: destroy() calls flushBuffer before it releases the flush timer.
C20_FlushBeforeTimerRelease ==
    (\E k \in DOMAIN destroyed : destroyed[k] = "clearInterval") =>
        destroyed = <<"flushBuffer", "clearInterval">>

----------------------------------------------------------------------------
(* Properties of masking *)

\* C9: with masking configured, what a log call writes to the console and to
\* the file is what it would write had every masked field of the metadata
\* held maskChar repeated 8 times.
C9_MaskedOnEverySink ==
    Called /\ last.passed /\ options.maskSecrets =>
        /\ options.console =>
              last.text = formatMessage(last.level, last.message,
                                        mask(last.metadata), last.draw, last.accept)
        /\ last.fileId # 0 =>
              last.line = FileLine(LogEntry(last.level, last.message,
                                            mask(last.metadata)))

----------------------------------------------------------------------------
(* error() and fatal() *)

\* C21: once a fatal call has been logged and its file write has settled, the
\* process has exited if exitOnError is set, and is running if it is not.
C21_FatalExitsWhenAsked ==
    Called /\ last.level = "fatal" /\ last.passed /\ Idle =>
        (exited <=> options.exitOnError)

\* C21, as the code has it: a fatal call never ends the process, whatever
\* exitOnError is, and goes where an error call goes: to console.error and to
\* the output file.
C21_FatalNeverExits ==
    Called /\ last.level = "fatal" =>
        /\ ~exited
        /\ last.passed =>
              /\ last.stream = (IF options.console THEN "console.error" ELSE "none")
              /\ (last.fileId # 0 <=> options.outputFile # "")

C21_Witness ==
    /\ Called /\ last.level = "fatal" /\ last.passed /\ options.exitOnError
    /\ last.fileId # 0 /\ Idle /\ ~exited

\* The latest call was error() or fatal().
ErrorCall == Called /\ last.level \in {"error", "fatal"}

----------------------------------------------------------------------------
(* The timestamp cache *)

\* C27: a call made a second or more after the cached timestamp was computed
\* computes a new one and stamps the cache with the time of the call; a call
\* made earlier may reuse it; so the timestamp of a line is never a second old.
C27_CacheExpires ==
    Called /\ last.passed =>
        /\ last.at - last.cached >= CacheWindow =>
              /\ lastTimestampTime = last.at
              /\ lastTimestamp = <<"ISO", ToString(last.at)>>
        /\ lastTimestampTime # last.at => lastTimestampTime = last.cached
        /\ last.at - lastTimestampTime < CacheWindow
        /\ lastTimestamp = <<"ISO", ToString(lastTimestampTime)>>
        /\ ~options.consoleJson => SubSeq(last.text, 1, 2) = lastTimestamp

\* A call exactly one second after the cache was stamped has stamped it anew.
C27_Witness ==
    /\ Called /\ last.passed
    /\ last.cached >= Epoch /\ last.at - last.cached >= CacheWindow
    /\ lastTimestampTime = last.at

----------------------------------------------------------------------------
(* The value formatter *)

\* C28: whatever the kind of a metadata value, the formatter returns a text
\* and the log call does not fail.
C28_FormatterTotal ==
    Called /\ last.passed => ~escaped /\ last.text # <<>>

\* The metadata value of the latest call.
Value == Lookup(last.metadata, "v")

\* The line of a call without its metadata block.
Header ==
    formatLogLine(lastTimestamp, defaultTypeMapping[last.level],
                  IF options.showLogType THEN LogTypeOf(last.level) ELSE Absent,
                  last.message, options.showEmoji, <<"symbols", last.level>>,
                  Undefined, Undefined)

\* The metadata block of a value rendered as `text`.
Block(text) ==
    <<"\n", " ", " ", "v", ":">>
    \o (IF \A i \in 1 .. Len(text) : text[i] # "\n" THEN <<" ">> \o text
        ELSE NewLine(BlockIndent) \o Reindent(text, BlockIndent))

\* C29: an Error is rendered by the error rule and a typed array by the
\* typed-array rule, a plain object with a toString of its own as the text that
\* returns, with or without own keys, an empty Map as Map(0) and an empty Set
\* as Set(0).
C29_DispatchPriority ==
    Called /\ last.passed /\ ~escaped /\ last.metadata.k = "object" =>
        /\ Value.k = "error" => last.text = Header \o Block(formatError(Value))
        /\ Value.k = "typedarray" =>
              last.text = Header
                  \o Block(<<Value.name, "(">>
                           \o join([i \in 1 .. Len(Value.e) |-> <<ToString(Value.e[i])>>],
                                   <<",", " ">>)
                           \o <<")">>)
        /\ Value.k = "object" /\ CustomString(Value) =>
              last.text = Header \o Block(Value.str)
        /\ Value = MapValue(<<>>) => last.text = Header \o Block(<<"Map", "(0)">>)
        /\ Value = SetValue(<<>>) => last.text = Header \o Block(<<"Set", "(0)">>)

----------------------------------------------------------------------------
(* The rotation decision of one write *)

\* C30: a write runs the rotation renames exactly when the size it read before
\* writing had reached maxSize, which it reads only with rotation enabled and
\* the live file there; a rotation it runs goes through to the rename of the
\* live file to backup 1; and rotation or not, the record is appended.
C30_RotationIffAndFrame ==
    \A id \in DOMAIN tasks :
        Settled(id) /\ dirExists /\ writable =>
            /\ tasks[id].rotated <=> tasks[id].seen >= tasks[id].maxSize
            /\ tasks[id].seen > 0 => options.rotate
            /\ tasks[id].rotated => tasks[id].cause # "rename"
            /\ tasks[id].pc = "done" /\ Occurrences(id) + (IF id \in discarded THEN 1 ELSE 0) = 1

----------------------------------------------------------------------------
(* The singleton *)

\* C22: there is one Logger; the options of the first access initialize it, and
\* the options of every later access are in force once that access returns.
C22_LaterOptionsUpdate ==
    instance => \A k \in DOMAIN given : options[k] = given[k]

----------------------------------------------------------------------------
(* The severity table *)

\* C23: every category name resolves to one of the six severities, a name the
\* table does not hold to info, and the call is filtered as that severity.
C23_CategorySeverityTotal ==
    Called /\ options.minLevel \in Severities =>
        LET severity == IF last.level \in LogLevels THEN defaultTypeMapping[last.level]
                        ELSE "info"
        IN  /\ categorySeverity(last.level) = severity
            /\ last.passed <=> defaultLogLevels[severity] >= defaultLogLevels[options.minLevel]

\* The priorities of the README's table of log levels.
ReadmePriority ==
    [trace |-> 0, debug |-> 1, info |-> 2, success |-> 3, warn |-> 4, error |-> 5,
     fatal |-> 6]

\* C24: the levels rank as the README lists them, success above info and
\* below warn, and a call is shown exactly when its level is at or above minLevel.
C24_ReadmeOrder ==
    Called /\ last.level \in DOMAIN ReadmePriority =>
        /\ last.passed <=>
              ReadmePriority[last.level] >= ReadmePriority[options.minLevel]
        /\ last.level = "success" =>
              /\ Rank("success") > Rank("info")
              /\ Rank("success") < Rank("warn")

----------------------------------------------------------------------------
(* The output format *)

\* The object of the structured mode: timestamp, level, type, message, the
\* metadata of the call and then the global metadata.
JsonRecord(timestamp, level, message, metadata) ==
    SpreadObj(
        SpreadObj(
            Obj(<< <<"timestamp", Str(timestamp)>>,
                   <<"level", Str(<<defaultTypeMapping[level]>>)>>,
                   <<"type", IF level = defaultTypeMapping[level] THEN Undefined
                             ELSE Str(<<level>>)>>,
                   <<"message", Str(message)>> >>),
            metadata),
        options.metadata)

\* C25: with format 'json' the line of an emitted record is that one JSON
\* object, on one line or indented by options.indentation.
C25_JsonFormatLine ==
    Called /\ last.passed /\ options.console /\ options.format = "json" =>
        \E indent \in {0, options.indentation} :
            last.text = JSONstringify(JsonRecord(lastTimestamp, last.level, last.message,
                                                 last.metadata), indent, 0)

----------------------------------------------------------------------------
(* The level option *)

\* C31: with no minLevel given, a call made after the level option was set, at
\* construction or by updateOptions, is emitted exactly when its severity is at
\* or above that level.
C31_LevelOptionIsMinimum ==
    Called /\ last.update = update.n =>
        (last.passed <=> Rank(last.level) >= defaultLogLevels[options.level])

----------------------------------------------------------------------------
(* The timestamp format *)

\* The clock reading t in the form options.timeFormat names, in the time zone
\* options.timeZone for the locale form, ISO for a form that is not known.
StampAt(t) ==
    CASE options.timeFormat = "UTC"    -> <<"UTC", ToString(t)>>
      [] options.timeFormat = "UNIX"   -> <<"UNIX", ToString(t \div 1000)>>
      [] options.timeFormat = "locale" -> <<"locale", options.timeZone, ToString(t)>>
      [] OTHER                         -> <<"ISO", ToString(t)>>

\* C32: the line of an emitted record starts with the time its timestamp was
\* computed at, in the configured timestamp format.
C32_ConfiguredTimeFormat ==
    Called /\ last.passed /\ options.console =>
        SubSeq(last.text, 1, Len(StampAt(lastTimestampTime))) = StampAt(lastTimestampTime)

----------------------------------------------------------------------------
(* The order of the gates *)

\* C33: a call dropped by the silence gate or the level gate draws no sample
\* and reaches neither the filter nor the context provider; a call dropped by
\* sampling reaches neither the filter nor the context provider; a call dropped
\* by the filter does not reach the context provider.
C33_GateOrder ==
    Called =>
        /\ options.silent \/ Rank(last.level) < defaultLogLevels[options.minLevel] =>
              last.randomCalls = 0 /\ last.filterCalls = 0 /\ last.contextCalls = 0
        /\ SampledOut(last.draw) => last.filterCalls = 0 /\ last.contextCalls = 0
        /\ FilteredOut(last.accept) => last.contextCalls = 0

\* A call that passed silence and level drew its sample and was sampled out
\* while a filter was configured.
C33_Witness ==
    /\ Called /\ last.passed /\ options.filter = "custom"
    /\ SampledOut(last.draw) /\ last.randomCalls = 1

----------------------------------------------------------------------------
(* The backups *)

\* No backup exists above a backup that does not.
Contiguous == \A i \in 1 .. MaxRotate : files[i + 1].present => files[i].present

\* A step moves content among the backups by renames only: what a backup holds
\* after the step is what it held before, what the file one place below it
\* held before, or nothing.
RenamesOnly ==
    \A i \in 1 .. (MaxRotate + 1) :
        files'[i] \in {files[i], files[i - 1], NoFile}

\* C34: the backups are contiguous at every moment, and every step leaves each
\* backup as it was, moves it one place up with its content, or removes it, so
\* that a lower index always holds content rotated out later.
C34_BackupsContiguousAndOrdered == []Contiguous /\ [][RenamesOnly]_vars

----------------------------------------------------------------------------
(* The outcome of a file write *)

\* C35: a write that has run to its end either appended its record, once, or
\* failed, appended nothing and was reported; no record is in the files twice;
\* console.error has received one report for each failed write, a write whose
\* rotation failed included, and one for a log directory that could not be made.
C35_OneOutcomePerWrite ==
    /\ \A id \in DOMAIN tasks :
          /\ Occurrences(id) <= 1
          /\ tasks[id].pc = "failed" => Occurrences(id) = 0
          /\ tasks[id].pc = "done" /\ id \notin discarded => Occurrences(id) = 1
          /\ Occurrences(id) = 1 => tasks[id].pc = "done"
    /\ errStream = IoErrors

\* One write appended its record and another failed in its rotation.
C35_Witness ==
    \E id, other \in DOMAIN tasks :
        /\ tasks[id].pc = "failed" /\ tasks[id].cause = "rename"
        /\ tasks[other].pc = "done" /\ Occurrences(other) = 1

----------------------------------------------------------------------------
(* The record's own fields in JSON console output *)

\* The fields computed for the record in last: the timestamp its line was
\* given, its severity, its category when that is not the severity, its message.
OwnFields ==
    Obj(<< <<"timestamp", Str(lastTimestamp)>>,
           <<"level", Str(<<defaultTypeMapping[last.level]>>)>>,
           <<"type", IF last.level = defaultTypeMapping[last.level] THEN Undefined
                     ELSE Str(<<last.level>>)>>,
           <<"message", Str(last.message)>> >>)

\* C36: the JSON console text of a record is that of the object in which the
\* record's own timestamp, level, type and message stand over whatever the
\* per-call, context and global metadata carry under those keys.
C36_OwnFieldsAuthoritative ==
    Called /\ last.passed /\ options.console /\ options.consoleJson =>
        last.text =
            JSONstringify(
                SpreadObj(SpreadObj(SpreadObj(SpreadObj(OwnFields, last.metadata),
                                              options.contextProvider),
                                    options.metadata),
                          OwnFields),
                IF options.prettyPrint THEN options.indentation ELSE 0, 0)

----------------------------------------------------------------------------
(* The caller's objects *)

\* C37: after a log call the metadata object the caller passed, every object
\* nested in it, the global metadata and the context object are, cell by cell,
\* what they were before the call.
C37_CallerObjectsUnchanged ==
    Called /\ last.update = update.n =>
        SubSeq(last.heap, 1, Len(callerHeap(last.metadata).h))
            = callerHeap(last.metadata).h

\* A call whose metadata holds a secret in a nested object went through masking,
\* which made its copies.
C37_Witness ==
    /\ Called /\ last.passed /\ options.maskSecrets
    /\ \E i \in 1 .. Len(Entries(last.metadata)) :
          Entries(last.metadata)[i][2].k = "object"
    /\ maskSensitiveData(last.metadata) # last.metadata
    /\ Len(last.heap) > Len(callerHeap(last.metadata).h) + 1

----------------------------------------------------------------------------
(* What masking leaves alone *)

RECURSIVE HasMaskedKey(_)
\* A key of options.maskFields occurs in v, at any depth.
HasMaskedKey(v) ==
    CASE v.k = "object" -> \E i \in 1 .. Len(v.e) :
                               v.e[i][1] \in options.maskFields \/ HasMaskedKey(v.e[i][2])
      [] v.k = "array"  -> \E i \in 1 .. Len(v.e) : HasMaskedKey(v.e[i])
      [] OTHER          -> FALSE

RECURSIVE maskOnly(_)
\* v with the values under masked keys replaced and every other value, of
\* whatever kind, as it is.
maskOnly(v) ==
    CASE v.k = "object" ->
            Obj([i \in 1 .. Len(v.e) |->
                    IF v.e[i][1] \in options.maskFields
                    THEN <<v.e[i][1], Str(repeat(options.maskChar, MaskLength))>>
                    ELSE <<v.e[i][1], maskOnly(v.e[i][2])>>])
      [] v.k = "array"  -> Arr([i \in 1 .. Len(v.e) |-> maskOnly(v.e[i])])
      [] OTHER          -> v

\* C38: with masking enabled, the console text of a record whose metadata holds
\* no masked key is the text it has with masking disabled, and in JSON form
\* the text of any record is that of its metadata with the values under masked
\* keys replaced and nothing else changed.
C38_MaskingLeavesOtherKeys ==
    Called /\ last.passed /\ options.console /\ options.maskSecrets =>
        /\ ~HasMaskedKey(last.metadata) =>
              last.text = RenderedWith(last.level, last.message,
                                       WithContext(last.metadata))
        /\ options.consoleJson =>
              last.text = RenderedWith(last.level, last.message,
                                       WithContext(maskOnly(last.metadata)))

====
